---- MODULE Spec2Model ----
(***************************************************************************)
(* Zakat Management System API (backend/main.py, models.py, database.py).  *)
(*                                                                         *)
(* The two MongoDB collections are the shared state; every request is a    *)
(* coroutine whose suspension points are its awaited store operations.     *)
(* One action below is one store operation taking effect together with the *)
(* handler code that runs up to the next awaited store call.               *)
(*                                                                         *)
(* Money is kept in scaled integers: amount in whole units, zakat_amount   *)
(* in thousandths of a unit, so that 0.025 is the integer RATE_MILLI.      *)
(***************************************************************************)
EXTENDS Integers, Sequences, FiniteSets, TLC

\* ------------------------------------------------------------------ bounds
MaxUsers == 2      \* user documents ever inserted
MaxEntries == 2    \* zakat documents ever inserted
MaxClock == 2      \* last instant of the simulated clock

Reqs == {1, 2}                \* requests in flight at the same time

\* ------------------------------------------------------------- value domains
Emails == {"a@x", "b@x"}
Usernames == {"ua", "ub"}
Passwords == {"pw", "pw2"}
FullNames == {"Full Name"}
Amounts == {-1, 2}
Categories == {"Cash", "Gold"}

\* Optional[T]: None is the empty tuple, a present value v is <<v>>.
None == <<>>
Some(v) == <<v>>
Opt(S) == {None} \cup {Some(v) : v \in S}

\* ---------------------------------------------------------------- constants
\* main.py:152 and main.py:269 multiply by 0.025; in thousandths that is 25.
RATE_MILLI == 25
\* auth.ACCESS_TOKEN_EXPIRE_MINUTES, in ticks of the simulated clock.
ACCESS_TOKEN_EXPIRE_MINUTES == 1

HTTP_200_OK == 200
HTTP_201_CREATED == 201
HTTP_204_NO_CONTENT == 204
HTTP_400_BAD_REQUEST == 400
HTTP_401_UNAUTHORIZED == 401
HTTP_404_NOT_FOUND == 404
HTTP_500_INTERNAL_SERVER_ERROR == 500

\* -------------------------------------------------------------------- state
VARIABLES
    users,      \* users_collection: documents in natural (insertion) order
    zakat,      \* zakat_collection: set of documents
    nextUid,    \* next ObjectId the store hands out for a user document
    nextZid,    \* next ObjectId the store hands out for a zakat document
    clock,      \* datetime.utcnow()
    tokens,     \* per email, the last access token Login returned for it
    req         \* the requests in flight: one record per coroutine

vars == <<users, zakat, nextUid, nextZid, clock, tokens, req>>

\* ------------------------------------------------------------ auth (auth.py)
\* get_password_hash / verify_password: a one-way salted hash that verifies
\* exactly the plaintext it was made from.
get_password_hash(plain) == [algo |-> "bcrypt", of |-> plain]
verify_password(plain, hashed) == hashed = [algo |-> "bcrypt", of |-> plain]

\* create_access_token(data={"sub": sub}, expires_delta): the claim and the
\* absolute expiry now + ttl, signed with the process-wide secret.
create_access_token(sub, expires_delta, now) ==
    [sub |-> sub, exp |-> now + expires_delta, signed |-> TRUE]

\* A token no Login issued: well formed, far expiry, wrong signature.
ForgedToken == [sub |-> "a@x", exp |-> MaxClock + 10, signed |-> FALSE]

Unauthorized == "<401>"
\* get_current_user_email(token): the outcomes of resolving the presented
\* token at instant now.  A missing token, a bad signature and a passed
\* expiry are all Unauthorized; at the expiry instant itself the library
\* decides (exp < now or exp <= now), so both outcomes are possible there.
get_current_user_email(token, now) ==
    IF token = None THEN {Unauthorized}
    ELSE LET t == token[1] IN
         IF ~t.signed THEN {Unauthorized}
         ELSE IF now < t.exp THEN {t.sub}
         ELSE IF now > t.exp THEN {Unauthorized}
         ELSE {t.sub, Unauthorized}

\* ------------------------------------------------------------ store helpers
\* ObjectId(zakat_id) raises on a malformed string; path ids are integers here
\* and 0 stands for every string that is no ObjectId.
ValidObjectId(zakat_id) == zakat_id >= 1

\* users_collection.find_one(filter): the matching documents it may return.
UsersByEmail(email) == {i \in 1..Len(users) : users[i].email = email}
UsersByUsername(username) == {i \in 1..Len(users) : users[i].username = username}

\* Mutant: the owner is left out of the filter.
ZakatByIdAnyOwner(id, uid) == {e \in zakat : e.id = id}

\* zakat_collection.find_one({"_id": id, "user_id": uid})
ZakatByIdAndUser(id, uid) == {e \in zakat : e.id = id /\ e.user_id = uid}
\* zakat_collection.find_one({"_id": id})
ZakatById(id) == {e \in zakat : e.id = id}
\* Mutant: find() without the owner filter.
ZakatOfAnyUser(uid) == zakat

\* zakat_collection.find({"user_id": uid})
ZakatByUser(uid) == {e \in zakat : e.user_id = uid}

\* One store call as the handler issued it: collection, operation, filter keys.
StoreOp(coll, op, keys) == [coll |-> coll, op |-> op, filter |-> keys]

\* ----------------------------------------------------------------- requests
\* A request's inputs (path id, body) enter its record at the step where the
\* handler first reads them; until then they do not influence anything.
EmptyBody == [amount |-> None, category |-> None, description |-> None, date |-> None]

Idle ==
    [op |-> "none", pc |-> "idle", token |-> None, email |-> "", username |-> "",
     password |-> "", full_name |-> "", zakat_id |-> 0, body |-> EmptyBody,
     user_id |-> 0, now |-> 0, status |-> 0, resp |-> None, log |-> <<>>]

\* The tokens a client can present: none, a forged one, or one Login returned.
PresentableTokens ==
    {None, Some(ForgedToken)} \cup {tokens[e] : e \in Emails}

\* ZakatCreate bodies (models.py:39-43) and ZakatUpdate bodies (models.py:46-50).
\* The optional fields travel together or alone in the bodies that are tried.
CreateBodies ==
    {[amount |-> Some(a), category |-> Some("Cash"), description |-> None, date |-> None] :
        a \in Amounts}
    \cup
    {[amount |-> Some(a), category |-> Some("Gold"), description |-> Some("note"),
      date |-> Some(7)] : a \in Amounts}
UpdateBodies ==
    {[amount |-> a, category |-> None, description |-> None, date |-> None] :
        a \in Opt(Amounts)}
    \cup
    {[amount |-> a, category |-> Some("Gold"), description |-> Some("note"),
      date |-> Some(7)] : a \in {None, Some(2)}}
PathIds == 0..MaxEntries

Init ==
    /\ users = <<>>
    /\ zakat = {}
    /\ nextUid = 1
    /\ nextZid = 1
    /\ clock = 0
    /\ tokens = [e \in Emails |-> None]
    /\ req = [r \in Reqs |-> Idle]

\* A new request takes the first record that is not in use.
Unused(r) == req[r].pc \in {"idle", "done"}
Free(r) == Unused(r) /\ \A x \in Reqs : Unused(x) => r <= x

\* A response stays in its record until the service takes its next step.
Step(r, q) ==
    req' = [x \in Reqs |->
             IF x = r THEN q ELSE IF req[x].pc = "done" THEN Idle ELSE req[x]]

\* The handler of request record q ends with a status code and a response
\* body, if any.
Finish(r, q, status, resp, ops) ==
    Step(r, [q EXCEPT !.pc = "done", !.status = status, !.resp = resp,
                      !.log = q.log \o ops])

Respond(r, status, resp, ops) == Finish(r, req[r], status, resp, ops)

\* The handler of request record q suspends on its next store call.
Suspend(r, q, pc, ops) == Step(r, [q EXCEPT !.pc = pc, !.log = q.log \o ops])

\* Requests admitted so far that will still insert a document.
Pending(op) == Cardinality({q \in Reqs : req[q].op = op /\ req[q].pc # "done"})

\* ------------------------------------------------------- POST /auth/register
\* Mutant: the stored document is returned as it is, password hash included.
UserResponseWholeDoc(doc) == doc

\* UserResponse(**user_doc): the declared fields only (models.py:19-26).
UserResponse(doc) ==
    [id |-> doc.id, username |-> doc.username, email |-> doc.email,
     full_name |-> doc.full_name, created_at |-> doc.created_at]

\* main.py:57-62: the request arrives and its email lookup is answered.
RegisterFindEmail(r) ==
    /\ Free(r)
    /\ nextUid + Pending("register") <= MaxUsers
    /\ \E e \in Emails, u \in Usernames, n \in FullNames :
        LET q == [Idle EXCEPT !.op = "register", !.email = e, !.username = u,
                              !.password = "pw", !.full_name = n]
            op == <<StoreOp("users", "find_one", {"email"})>>
        IN IF UsersByEmail(e) # {}
           THEN Finish(r, q, HTTP_400_BAD_REQUEST, Some("Email already registered"), op)
           ELSE Suspend(r, q, "find_username", op)
    /\ UNCHANGED <<users, zakat, nextUid, nextZid, clock, tokens>>

\* main.py:65-82: the username lookup, then the document is built.
RegisterFindUsername(r) ==
    /\ req[r].op = "register" /\ req[r].pc = "find_username"
    /\ LET op == <<StoreOp("users", "find_one", {"username"})>> IN
       IF UsersByUsername(req[r].username) # {}
       THEN Respond(r, HTTP_400_BAD_REQUEST, Some("Username already taken"), op)
       ELSE Suspend(r, [req[r] EXCEPT !.now = clock], "insert", op)
    /\ UNCHANGED <<users, zakat, nextUid, nextZid, clock, tokens>>

\* main.py:76-82
UserDoc(id, q) ==
    [id |-> id, username |-> q.username, email |-> q.email,
     password |-> get_password_hash(q.password),
     full_name |-> q.full_name, created_at |-> q.now]

\* Mutant: the insert replaces the collection's documents.
RegisterInsertReplacing(r) ==
    /\ req[r].op = "register" /\ req[r].pc = "insert"
    /\ LET user_doc == UserDoc(nextUid, req[r]) IN
        /\ users' = <<user_doc>>
        /\ nextUid' = nextUid + 1
        /\ Respond(r, HTTP_201_CREATED, Some(UserResponse(user_doc)),
                   <<StoreOp("users", "insert_one", {})>>)
    /\ UNCHANGED <<zakat, nextZid, clock, tokens>>

\* main.py:85-88
RegisterInsert(r) ==
    /\ req[r].op = "register" /\ req[r].pc = "insert"
    /\ LET user_doc == UserDoc(nextUid, req[r]) IN
        /\ users' = Append(users, user_doc)
        /\ nextUid' = nextUid + 1
        /\ Respond(r, HTTP_201_CREATED, Some(UserResponse(user_doc)),
                   <<StoreOp("users", "insert_one", {})>>)
    /\ UNCHANGED <<zakat, nextZid, clock, tokens>>

\* ---------------------------------------------------------- POST /auth/login
\* Mutant: the token carries the username instead of the email.
LoginTokenForUsername(user, now) ==
    create_access_token(user.username, ACCESS_TOKEN_EXPIRE_MINUTES, now)

\* main.py:113-116: the token Login issues for the user document it found.
LoginToken(user, now) ==
    create_access_token(user.email, ACCESS_TOKEN_EXPIRE_MINUTES, now)

\* Mutant: a missing user is told apart from a wrong password.
LoginNoSuchUser ==
    [detail |-> "User not found", headers |-> {<<"WWW-Authenticate", "Bearer">>}]

\* main.py:98-102: the HTTPException raised when find_one returns None.
LoginMissingUser ==
    [detail |-> "Incorrect email or password",
     headers |-> {<<"WWW-Authenticate", "Bearer">>}]
\* main.py:106-110: the HTTPException raised when verify_password fails.
LoginBadPassword ==
    [detail |-> "Incorrect email or password",
     headers |-> {<<"WWW-Authenticate", "Bearer">>}]

\* main.py:95-118: the request arrives and its one store call is answered.
Login(r) ==
    /\ Free(r)
    /\ \E e \in Emails, p \in Passwords :
        LET q == [Idle EXCEPT !.op = "login", !.email = e, !.password = p]
            op == <<StoreOp("users", "find_one", {"email"})>>
        IN IF UsersByEmail(e) = {}
           THEN /\ Finish(r, q, HTTP_401_UNAUTHORIZED, Some(LoginMissingUser), op)
                /\ UNCHANGED tokens
           ELSE \E i \in UsersByEmail(e) :
                  IF ~verify_password(p, users[i].password)
                  THEN /\ Finish(r, q, HTTP_401_UNAUTHORIZED, Some(LoginBadPassword), op)
                       /\ UNCHANGED tokens
                  ELSE LET t == LoginToken(users[i], clock) IN
                       /\ Finish(r, [q EXCEPT !.now = clock], HTTP_200_OK, Some(t), op)
                       /\ tokens' = [tokens EXCEPT ![e] = Some(t)]
    /\ UNCHANGED <<users, zakat, nextUid, nextZid, clock>>

\* datetime.utcnow() advances.
Tick ==
    /\ clock < MaxClock
    /\ clock' = clock + 1
    /\ req' = [x \in Reqs |-> IF req[x].pc = "done" THEN Idle ELSE req[x]]
    /\ UNCHANGED <<users, zakat, nextUid, nextZid, tokens>>

\* ------------------------------------------------- authenticated operations
AuthedOps == {"me", "create", "list", "get", "update", "delete", "stats"}

\* Mutant: the statistics handler lost its token dependency.
GuardedAllButStats(op) == op \in AuthedOps \ {"stats"}

\* The handlers whose signature declares
\* email: str = Depends(get_current_user_email).
Guarded(op) == op \in AuthedOps

\* What a handler gets for its email parameter: the token is resolved before
\* the handler body runs (no store access); an unguarded handler would read
\* the claim unverified.
ResolveEmail(op, token, now) ==
    IF Guarded(op) THEN get_current_user_email(token, now)
    ELSE IF token = None THEN {""} ELSE {token[1].sub}

\* A request for a guarded handler arrives: 401, or the handler body starts
\* and suspends on its user lookup.
Arrive(r, op) ==
    /\ Free(r)
    /\ \E t \in PresentableTokens :
        LET q == [Idle EXCEPT !.op = op, !.token = t]
        IN \E res \in ResolveEmail(op, t, clock) :
            IF res = Unauthorized
            THEN Finish(r, q, HTTP_401_UNAUTHORIZED,
                        Some("Could not validate credentials"), <<>>)
            ELSE Suspend(r, [q EXCEPT !.email = res], "user", <<>>)
    /\ UNCHANGED <<users, zakat, nextUid, nextZid, clock, tokens>>

StartMe(r) == Arrive(r, "me")
StartCreate(r) == nextZid + Pending("create") <= MaxEntries /\ Arrive(r, "create")
StartList(r) == Arrive(r, "list")
StartGet(r) == Arrive(r, "get")
StartUpdate(r) == Arrive(r, "update")
StartDelete(r) == Arrive(r, "delete")
StartStats(r) == Arrive(r, "stats")

\* user = await users_collection.find_one({"email": email})
UserLookup == <<StoreOp("users", "find_one", {"email"})>>
FoundUsers(r) == {users[i] : i \in UsersByEmail(req[r].email)}
\* if not user: raise HTTPException(404, "User not found")
UserNotFound(r) == Respond(r, HTTP_404_NOT_FOUND, Some("User not found"), UserLookup)

\* The handler has its user and goes on to a store call on one entry, whose
\* filter holds ObjectId(zakat_id): a malformed id ends in 400 before the call.
ToEntryCall(r, user, pc, op) ==
    \E zakat_id \in PathIds :
        LET q == [req[r] EXCEPT !.zakat_id = zakat_id, !.user_id = user.id] IN
        IF ~ValidObjectId(zakat_id)
        THEN Finish(r, q, HTTP_400_BAD_REQUEST, Some("Invalid zakat ID"), op)
        ELSE Suspend(r, q, pc, op)

AtUser(r, op) == req[r].op = op /\ req[r].pc = "user"

\* ------------------------------------------------------------- GET /auth/me
Me(r) ==
    /\ AtUser(r, "me")
    /\ IF FoundUsers(r) = {} THEN UserNotFound(r)
       ELSE \E user \in FoundUsers(r) :
            Respond(r, HTTP_200_OK, Some(UserResponse(user)), UserLookup)
    /\ UNCHANGED <<users, zakat, nextUid, nextZid, clock, tokens>>

\* ------------------------------------------------------------- POST /zakat
\* ZakatResponse(**doc): the declared fields only (models.py:53-62).
ZakatResponse(doc) ==
    [id |-> doc.id, amount |-> doc.amount, category |-> doc.category,
     description |-> doc.description, date |-> doc.date,
     zakat_amount |-> doc.zakat_amount, user_id |-> doc.user_id]

\* zakat.amount * 0.025, in thousandths.
ZakatAmount(amount) == amount * RATE_MILLI

\* main.py:144-163: the user lookup, then the document is built.
CreateUser(r) ==
    /\ AtUser(r, "create")
    /\ IF FoundUsers(r) = {} THEN UserNotFound(r)
       ELSE \E user \in FoundUsers(r), body \in CreateBodies :
            Suspend(r, [req[r] EXCEPT !.body = body, !.user_id = user.id,
                                      !.now = clock], "insert", UserLookup)
    /\ UNCHANGED <<users, zakat, nextUid, nextZid, clock, tokens>>

\* main.py:152-163
ZakatDoc(id, body, user_id, now) ==
    [id |-> id, amount |-> body.amount[1], category |-> body.category[1],
     description |-> body.description,
     date |-> IF body.date # None THEN body.date[1] ELSE now,
     zakat_amount |-> ZakatAmount(body.amount[1]),
     user_id |-> user_id, created_at |-> now]

\* main.py:166-169
CreateInsert(r) ==
    /\ req[r].op = "create" /\ req[r].pc = "insert"
    /\ LET zakat_doc == ZakatDoc(nextZid, req[r].body, req[r].user_id, req[r].now) IN
        /\ zakat' = zakat \cup {zakat_doc}
        /\ nextZid' = nextZid + 1
        /\ Respond(r, HTTP_201_CREATED, Some(ZakatResponse(zakat_doc)),
                   <<StoreOp("zakat", "insert_one", {})>>)
    /\ UNCHANGED <<users, nextUid, clock, tokens>>

\* -------------------------------------------------------- GET /zakat/{id}
GetUser(r) ==
    /\ AtUser(r, "get")
    /\ IF FoundUsers(r) = {} THEN UserNotFound(r)
       ELSE \E user \in FoundUsers(r) : ToEntryCall(r, user, "find", UserLookup)
    /\ UNCHANGED <<users, zakat, nextUid, nextZid, clock, tokens>>

\* main.py:212-229
GetFind(r) ==
    /\ req[r].op = "get" /\ req[r].pc = "find"
    /\ LET op == <<StoreOp("zakat", "find_one", {"_id", "user_id"})>>
           found == ZakatByIdAndUser(req[r].zakat_id, req[r].user_id)
       IN IF found = {}
          THEN Respond(r, HTTP_404_NOT_FOUND, Some("Zakat entry not found"), op)
          ELSE \E entry \in found : Respond(r, HTTP_200_OK, Some(ZakatResponse(entry)), op)
    /\ UNCHANGED <<users, zakat, nextUid, nextZid, clock, tokens>>

\* ------------------------------------------------------ DELETE /zakat/{id}
DeleteUser(r) ==
    /\ AtUser(r, "delete")
    /\ IF FoundUsers(r) = {} THEN UserNotFound(r)
       ELSE \E user \in FoundUsers(r) : ToEntryCall(r, user, "delete", UserLookup)
    /\ UNCHANGED <<users, zakat, nextUid, nextZid, clock, tokens>>

\* Mutant: delete_one filtered on the id alone.
DeleteFilterIdOnly(id, uid) == ZakatById(id)

\* Mutant: every entry of the caller is removed (delete_many on the owner).
DeleteFilterAllOfUser(id, uid) == ZakatByUser(uid)

\* The documents delete_one({"_id": id, "user_id": uid}) removes.
DeleteFilter(id, uid) == ZakatByIdAndUser(id, uid)

\* main.py:307-323
DeleteOne(r) ==
    /\ req[r].op = "delete" /\ req[r].pc = "delete"
    /\ LET op == <<StoreOp("zakat", "delete_one", {"_id", "user_id"})>>
           hit == DeleteFilter(req[r].zakat_id, req[r].user_id)
       IN IF hit = {}
          THEN /\ Respond(r, HTTP_404_NOT_FOUND, Some("Zakat entry not found"), op)
               /\ UNCHANGED zakat
          ELSE /\ zakat' = zakat \ hit
               /\ Respond(r, HTTP_204_NO_CONTENT, None, op)
    /\ UNCHANGED <<users, nextUid, nextZid, clock, tokens>>

\* --------------------------------------------------------- PUT /zakat/{id}
UpdateUser(r) ==
    /\ AtUser(r, "update")
    /\ IF FoundUsers(r) = {} THEN UserNotFound(r)
       ELSE \E user \in FoundUsers(r) : ToEntryCall(r, user, "find", UserLookup)
    /\ UNCHANGED <<users, zakat, nextUid, nextZid, clock, tokens>>

\* Mutant: the amount is replaced without recomputing zakat_amount.
UpdateKeysNoRecompute(body) ==
    {f \in {"amount", "category", "description", "date"} : body[f] # None}

\* main.py:266-275: update_data, the keys to $set and their values.
UpdateKeys(body) ==
    {f \in {"amount", "category", "description", "date"} : body[f] # None}
        \cup (IF body.amount # None THEN {"zakat_amount"} ELSE {})

\* Mutant: description is copied from the body whether supplied or not.
UpdateDataAlwaysDescription(body) ==
    [f \in UpdateKeys(body) \cup {"description"} |->
        CASE f = "amount" -> body.amount[1]
          [] f = "zakat_amount" -> ZakatAmount(body.amount[1])
          [] f = "category" -> body.category[1]
          [] f = "description" -> body.description
          [] f = "date" -> body.date[1]]

UpdateData(body) ==
    [f \in UpdateKeys(body) |->
        CASE f = "amount" -> body.amount[1]
          [] f = "zakat_amount" -> ZakatAmount(body.amount[1])
          [] f = "category" -> body.category[1]
          [] f = "description" -> body.description
          [] f = "date" -> body.date[1]]

\* {"$set": update_data} applied to one document.
SetFields(doc, update_data) ==
    [f \in DOMAIN doc |-> IF f \in DOMAIN update_data THEN update_data[f] ELSE doc[f]]

\* main.py:249-278: the ownership-filtered lookup; update_data is built and
\* the handler goes on to update_one only when it is not empty.
UpdateFind(r) ==
    /\ req[r].op = "update" /\ req[r].pc = "find"
    /\ LET op == <<StoreOp("zakat", "find_one", {"_id", "user_id"})>>
           found == ZakatByIdAndUser(req[r].zakat_id, req[r].user_id)
       IN IF found = {}
          THEN Respond(r, HTTP_404_NOT_FOUND, Some("Zakat entry not found"), op)
          ELSE \E body \in UpdateBodies :
                Suspend(r, [req[r] EXCEPT !.body = body],
                        IF UpdateKeys(body) # {} THEN "write" ELSE "refind", op)
    /\ UNCHANGED <<users, zakat, nextUid, nextZid, clock, tokens>>

\* The documents update_one({"_id": id}, ...) matches.
UpdateFilter(id, uid) == ZakatById(id)

\* main.py:279-282
UpdateWrite(r) ==
    /\ req[r].op = "update" /\ req[r].pc = "write"
    /\ LET hit == UpdateFilter(req[r].zakat_id, req[r].user_id) IN
        zakat' = {IF e \in hit THEN SetFields(e, UpdateData(req[r].body)) ELSE e : e \in zakat}
    /\ Suspend(r, req[r], "refind", <<StoreOp("zakat", "update_one", {"_id"})>>)
    /\ UNCHANGED <<users, nextUid, nextZid, clock, tokens>>

\* main.py:285-288: find_one by id; on None the subscript assignment raises
\* and the framework answers 500.
UpdateRefind(r) ==
    /\ req[r].op = "update" /\ req[r].pc = "refind"
    /\ LET op == <<StoreOp("zakat", "find_one", {"_id"})>>
           found == ZakatById(req[r].zakat_id)
       IN IF found = {}
          THEN Respond(r, HTTP_500_INTERNAL_SERVER_ERROR, Some("Internal Server Error"), op)
          ELSE \E updated_entry \in found :
                 Respond(r, HTTP_200_OK, Some(ZakatResponse(updated_entry)), op)
    /\ UNCHANGED <<users, zakat, nextUid, nextZid, clock, tokens>>

\* --------------------------------------------------------------- GET /zakat
ListUser(r) ==
    /\ AtUser(r, "list")
    /\ IF FoundUsers(r) = {} THEN UserNotFound(r)
       ELSE \E user \in FoundUsers(r) :
            Suspend(r, [req[r] EXCEPT !.user_id = user.id], "list", UserLookup)
    /\ UNCHANGED <<users, zakat, nextUid, nextZid, clock, tokens>>

\* Mutant: sort("date", 1).
SortedByDateAsc(docs) ==
    {s \in [1..Cardinality(docs) -> docs] :
        /\ \A i, j \in DOMAIN s : i # j => s[i] # s[j]
        /\ \A i, j \in DOMAIN s : i < j => s[i].date <= s[j].date}

\* find(...).sort("date", -1): every order of the documents with dates
\* non-increasing (the order among equal dates is the store's choice).
SortedByDateDesc(docs) ==
    {s \in [1..Cardinality(docs) -> docs] :
        /\ \A i, j \in DOMAIN s : i # j => s[i] # s[j]
        /\ \A i, j \in DOMAIN s : i < j => s[i].date >= s[j].date}

\* main.py:184-193
ListFind(r) ==
    /\ req[r].op = "list" /\ req[r].pc = "list"
    /\ \E entries \in SortedByDateDesc(ZakatByUser(req[r].user_id)) :
        Respond(r, HTTP_200_OK,
                Some([i \in DOMAIN entries |-> ZakatResponse(entries[i])]),
                <<StoreOp("zakat", "find", {"user_id"})>>)
    /\ UNCHANGED <<users, zakat, nextUid, nextZid, clock, tokens>>

\* ------------------------------------------- GET /zakat/statistics/summary
StatsUser(r) ==
    /\ AtUser(r, "stats")
    /\ IF FoundUsers(r) = {} THEN UserNotFound(r)
       ELSE \E user \in FoundUsers(r) :
            Suspend(r, [req[r] EXCEPT !.user_id = user.id], "stats", UserLookup)
    /\ UNCHANGED <<users, zakat, nextUid, nextZid, clock, tokens>>

\* cursor.to_list(): the documents in some order.
RECURSIVE ToList(_)
ToList(docs) ==
    IF docs = {} THEN <<>>
    ELSE LET d == CHOOSE x \in docs : TRUE IN <<d>> \o ToList(docs \ {d})

\* sum(entry[field] for entry in entries)
RECURSIVE SumField(_, _)
SumField(entries, field) ==
    IF entries = <<>> THEN 0
    ELSE Head(entries)[field] + SumField(Tail(entries), field)

\* main.py:347-358: one pass, a category's record made on first sight.
RECURSIVE CategoryStats(_, _)
CategoryStats(entries, category_stats) ==
    IF entries = <<>> THEN category_stats
    ELSE LET entry == Head(entries)
             category == entry.category
             seen == IF category \in DOMAIN category_stats
                     THEN category_stats
                     ELSE [c \in DOMAIN category_stats \cup {category} |->
                            IF c = category
                            THEN [count |-> 0, total_amount |-> 0, total_zakat |-> 0]
                            ELSE category_stats[c]]
             added == [seen EXCEPT
                         ![category].count = @ + 1,
                         ![category].total_amount = @ + entry.amount,
                         ![category].total_zakat = @ + entry.zakat_amount]
         IN CategoryStats(Tail(entries), added)

NoCategories == [c \in {} |-> 0]

\* main.py:342-365
Statistics(entries) ==
    [total_amount |-> SumField(entries, "amount"),
     total_zakat |-> SumField(entries, "zakat_amount"),
     total_entries |-> Len(entries),
     category_breakdown |-> CategoryStats(entries, NoCategories)]

\* main.py:338-365
StatsFind(r) ==
    /\ req[r].op = "stats" /\ req[r].pc = "stats"
    /\ Respond(r, HTTP_200_OK, Some(Statistics(ToList(ZakatByUser(req[r].user_id)))),
               <<StoreOp("zakat", "find", {"user_id"})>>)
    /\ UNCHANGED <<users, zakat, nextUid, nextZid, clock, tokens>>

\* ------------------------------------------------------------ store failures
\* An awaited store call raises (store unavailable): the call has no effect on
\* the collections and the exception travels up the handler.
StoreFault(call) == call @@ [raised |-> TRUE]

\* The store call a suspended handler is waiting for.
PendingCall(q) ==
    CASE q.pc = "user" -> StoreOp("users", "find_one", {"email"})
      [] q.pc = "find_username" -> StoreOp("users", "find_one", {"username"})
      [] q.op = "register" /\ q.pc = "insert" -> StoreOp("users", "insert_one", {})
      [] q.op = "create" /\ q.pc = "insert" -> StoreOp("zakat", "insert_one", {})
      [] q.pc = "find" -> StoreOp("zakat", "find_one", {"_id", "user_id"})
      [] q.pc = "write" -> StoreOp("zakat", "update_one", {"_id"})
      [] q.pc = "refind" -> StoreOp("zakat", "find_one", {"_id"})
      [] q.pc = "delete" -> StoreOp("zakat", "delete_one", {"_id", "user_id"})
      [] q.pc \in {"list", "stats"} -> StoreOp("zakat", "find", {"user_id"})

\* main.py:211-216, 248-253, 306-311: the calls that sit in a try block with
\* a bare except.
InTry(q) ==
    \/ q.op \in {"get", "update"} /\ q.pc = "find"
    \/ q.op = "delete" /\ q.pc = "delete"

\* The call of a suspended handler raises.  Inside the try block the bare
\* except answers 400 "Invalid zakat ID"; anywhere else the exception leaves
\* the handler and the framework answers 500.  Nothing is retried.
StoreFails(r) ==
    /\ req[r].pc \notin {"idle", "done"}
    /\ IF InTry(req[r])
       THEN Respond(r, HTTP_400_BAD_REQUEST, Some("Invalid zakat ID"),
                    <<StoreFault(PendingCall(req[r]))>>)
       ELSE Respond(r, HTTP_500_INTERNAL_SERVER_ERROR, Some("Internal Server Error"),
                    <<StoreFault(PendingCall(req[r]))>>)
    /\ UNCHANGED <<users, zakat, nextUid, nextZid, clock, tokens>>

\* main.py:57 and main.py:95: the first call of Register or Login raises.
FirstCallFails(r) ==
    /\ Free(r)
    /\ \E op \in {"register", "login"}, e \in Emails :
        Finish(r, [Idle EXCEPT !.op = op, !.email = e, !.password = "pw"],
               HTTP_500_INTERNAL_SERVER_ERROR, Some("Internal Server Error"),
               <<StoreFault(StoreOp("users", "find_one", {"email"}))>>)
    /\ UNCHANGED <<users, zakat, nextUid, nextZid, clock, tokens>>

\* --------------------------------------------------------------------- spec
UserSteps(r) ==
    \/ RegisterFindEmail(r) \/ RegisterFindUsername(r) \/ RegisterInsert(r)
    \/ Login(r)
    \/ StartMe(r) \/ Me(r)

EntrySteps(r) ==
    \/ StartCreate(r) \/ CreateUser(r) \/ CreateInsert(r)
    \/ StartList(r) \/ ListUser(r) \/ ListFind(r)
    \/ StartGet(r) \/ GetUser(r) \/ GetFind(r)
    \/ StartUpdate(r) \/ UpdateUser(r) \/ UpdateFind(r) \/ UpdateWrite(r)
    \/ UpdateRefind(r)
    \/ StartDelete(r) \/ DeleteUser(r) \/ DeleteOne(r)
    \/ StartStats(r) \/ StatsUser(r) \/ StatsFind(r)

\* The whole service from an empty database.
Next == (\E r \in Reqs : UserSteps(r) \/ EntrySteps(r)) \/ Tick
Spec == Init /\ [][Next]_vars

\* The account side: registration, login and identity lookup under a running
\* clock, from an empty database.
NextUsers == (\E r \in Reqs : UserSteps(r)) \/ Tick
SpecUsers == Init /\ [][NextUsers]_vars

\* The entry side, from a database that already holds two accounts.  Each email logged in at instant 0; the
\* requests arrive at once or after the tokens have expired.
Account(id, username, email) ==
    UserDoc(id, [Idle EXCEPT !.username = username, !.email = email,
                             !.password = "pw", !.full_name = "Full Name"])
UserStore == <<Account(1, "ua", "a@x"), Account(2, "ub", "b@x")>>

InitEntries ==
    /\ users = UserStore
    /\ zakat = {}
    /\ nextUid = MaxUsers + 1
    /\ nextZid = 1
    /\ clock \in {0, MaxClock}
    /\ tokens = [e \in Emails |->
                    IF \E i \in 1..Len(users) : users[i].email = e
                    THEN Some(LoginToken([email |-> e], 0)) ELSE None]
    /\ req = [r \in Reqs |-> Idle]

NextEntries == \E r \in Reqs : EntrySteps(r) \/ StartMe(r) \/ Me(r)
SpecEntries == InitEntries /\ [][NextEntries]_vars

\* The entry side with a store that can fail, one request at a time.
Alone(r) == \A x \in Reqs \ {r} : Unused(x)
NextFaults ==
    \E r \in Reqs :
        \/ Alone(r) /\ StartCreate(r)
        \/ Alone(r) /\ CreateUser(r)
        \/ Alone(r) /\ CreateInsert(r)
        \/ Alone(r) /\ StartList(r)
        \/ Alone(r) /\ ListUser(r)
        \/ Alone(r) /\ ListFind(r)
        \/ Alone(r) /\ StartGet(r)
        \/ Alone(r) /\ GetUser(r)
        \/ Alone(r) /\ GetFind(r)
        \/ Alone(r) /\ StartUpdate(r)
        \/ Alone(r) /\ UpdateUser(r)
        \/ Alone(r) /\ UpdateFind(r)
        \/ Alone(r) /\ UpdateWrite(r)
        \/ Alone(r) /\ UpdateRefind(r)
        \/ Alone(r) /\ StartDelete(r)
        \/ Alone(r) /\ DeleteUser(r)
        \/ Alone(r) /\ DeleteOne(r)
        \/ Alone(r) /\ StartStats(r)
        \/ Alone(r) /\ StatsUser(r)
        \/ Alone(r) /\ StatsFind(r)
        \/ Alone(r) /\ StartMe(r)
        \/ Alone(r) /\ Me(r)
        \/ Alone(r) /\ StoreFails(r)
        \/ Alone(r) /\ FirstCallFails(r)
SpecFaults == InitEntries /\ [][NextFaults]_vars

\* ------------------------------------------------------------------- claims
Acts(r) == req'[r] # req[r] /\ req'[r].pc # "idle"
Done(r, op) == req[r].op = op /\ req[r].pc = "done"
Logged(q, coll, op) == \E i \in DOMAIN q.log : q.log[i].coll = coll /\ q.log[i].op = op
NotFoundEntry(q) ==
    q.pc = "done" /\ q.status = 404 /\ q.resp = Some("Zakat entry not found")

\* C1: no two stored users share an email and no two share a username, also
\* when the store calls of several Register requests interleave.
C1_UniqueEmailAndUsername ==
    \A i, j \in 1..Len(users) :
        i # j => users[i].email # users[j].email /\ users[i].username # users[j].username

\* C2: every stored entry has zakat_amount = amount * 0.025 (in thousandths:
\* amount * 25) after any interleaving of Create, Update and Delete requests.
C2_ObligationMatchesAmount ==
    \A e \in zakat : e.zakat_amount = e.amount * 25

\* C2 witness: two Updates of one entry have both written, one that supplied
\* amount and one that did not.
C2_Witness ==
    \E r, s \in Reqs :
        /\ r # s /\ req[r].zakat_id = req[s].zakat_id
        /\ Done(r, "update") /\ req[r].status = 200 /\ req[r].body.amount # None
        /\ req[s].op = "update" /\ req[s].pc = "refind"
        /\ req[s].body.amount = None /\ Logged(req[s], "zakat", "update_one")
        /\ \E e \in zakat : e.id = req[r].zakat_id

\* C3: Get, Update and Delete by a user who does not own the entry end in
\* NotFound, exactly as for an id no entry has, and leave the store as it was;
\* no Update ever stands before its write or re-read of another user's entry.
C3_OthersEntryIsNotFound ==
    /\ [][\A r \in Reqs :
            (/\ Acts(r)
             /\ req[r].op \in {"get", "update", "delete"}
             /\ req[r].pc \in {"find", "delete"}
             /\ ~(\E e \in zakat : e.id = req[r].zakat_id /\ e.user_id = req[r].user_id))
            => NotFoundEntry(req'[r]) /\ zakat' = zakat]_vars
    /\ [](\A r \in Reqs : \A e \in zakat :
            (req[r].op = "update" /\ req[r].pc \in {"write", "refind"}
                /\ e.id = req[r].zakat_id) => e.user_id = req[r].user_id)

\* C3 witness: an Update aimed at another user's stored entry has ended in 404.
C3_Witness ==
    \E r \in Reqs :
        /\ Done(r, "update") /\ NotFoundEntry(req[r])
        /\ \E e \in zakat : e.id = req[r].zakat_id /\ e.user_id # req[r].user_id

\* C4: every find-one, update-one and delete-one that Get, Update or Delete
\* issues on an entry is filtered on the entry id and the caller's user id.
C4_EntryCallsFilterOnIdAndOwner ==
    \A r \in Reqs :
        req[r].op \in {"get", "update", "delete"} =>
            \A i \in DOMAIN req[r].log :
                (req[r].log[i].coll = "zakat"
                    /\ req[r].log[i].op \in {"find_one", "update_one", "delete_one"})
                => req[r].log[i].filter = {"_id", "user_id"}

\* C5: every stored entry has a positive amount (a negative amount is
\* rejected before anything is stored).
C5_StoredAmountsPositive ==
    \A e \in zakat : e.amount > 0

\* C6: an Update's write changes, in the entry with the path id and in no
\* other entry, exactly the supplied fields (zakat_amount iff amount is
\* supplied); an Update with nothing supplied never changes the store; and an
\* Update that finds its entry at the final read answers 200 with the entry
\* as stored.
Supplied(body, f) == body[f] # None
C6_WriteChanges(r, e, n) ==
    LET b == req[r].body IN
    /\ n.id = e.id /\ n.user_id = e.user_id /\ n.created_at = e.created_at
    /\ n.amount = IF Supplied(b, "amount") THEN b.amount[1] ELSE e.amount
    /\ n.zakat_amount = IF Supplied(b, "amount") THEN b.amount[1] * 25 ELSE e.zakat_amount
    /\ n.category = IF Supplied(b, "category") THEN b.category[1] ELSE e.category
    /\ n.description = IF Supplied(b, "description") THEN b.description ELSE e.description
    /\ n.date = IF Supplied(b, "date") THEN b.date[1] ELSE e.date
C6_UpdateReplacesSuppliedFields ==
    [][\A r \in Reqs : (Acts(r) /\ req'[r].op = "update") =>
        /\ req[r].pc = "write" =>
            /\ \A e \in zakat :
                IF e.id = req[r].zakat_id
                THEN \E n \in zakat' : C6_WriteChanges(r, e, n)
                ELSE e \in zakat'
            /\ Cardinality(zakat') = Cardinality(zakat)
        /\ req[r].pc # "write" => zakat' = zakat
        /\ (\A f \in DOMAIN EmptyBody : ~Supplied(req'[r].body, f)) =>
            /\ zakat' = zakat
            /\ ~Logged(req'[r], "zakat", "update_one")
        /\ (req[r].pc = "refind" /\ \E e \in zakat : e.id = req[r].zakat_id) =>
            /\ req'[r].pc = "done" /\ req'[r].status = 200
            /\ \E e \in zakat' :
                /\ e.id = req[r].zakat_id
                /\ req'[r].resp = Some([f \in DOMAIN e \ {"created_at"} |-> e[f]])
      ]_vars

\* C6 witness: an Update that supplied only amount has answered 200 with the
\* new amount, and an entry of another category is stored beside it.
C6_Witness ==
    \E r \in Reqs :
        /\ Done(r, "update") /\ req[r].status = 200
        /\ Supplied(req[r].body, "amount") /\ ~Supplied(req[r].body, "category")
        /\ req[r].resp[1].amount = req[r].body.amount[1]
        /\ req[r].resp[1].category = "Gold"
        /\ \E e \in zakat : e.id # req[r].zakat_id

\* C7: Delete removes exactly the caller's entry with the path id and answers
\* 204; when the caller has no such entry it answers NotFound and changes
\* nothing; an id once absent is never stored again, so a second Delete of the
\* same id ends in NotFound.
C7_DeleteRemovesExactlyOne ==
    /\ [][\A r \in Reqs : (Acts(r) /\ req[r].op = "delete" /\ req[r].pc = "delete") =>
            LET own == {e \in zakat : e.id = req[r].zakat_id /\ e.user_id = req[r].user_id}
            IN IF own # {}
               THEN /\ zakat' = zakat \ own /\ Cardinality(own) = 1
                    /\ req'[r].pc = "done" /\ req'[r].status = 204
               ELSE zakat' = zakat /\ NotFoundEntry(req'[r])]_vars
    /\ [][\A id \in 1..(nextZid - 1) :
            (~\E e \in zakat : e.id = id) => (~\E e \in zakat' : e.id = id)]_vars

\* C7 witness: a Delete has ended in NotFound on an id that was handed out and
\* is stored no more, while another entry is still stored.
C7_Witness ==
    \E r \in Reqs :
        /\ Done(r, "delete") /\ NotFoundEntry(req[r])
        /\ req[r].zakat_id < nextZid
        /\ ~\E e \in zakat : e.id = req[r].zakat_id
        /\ zakat # {}

\* C8: a Register whose email lookup (or username lookup) finds a stored user
\* ends in 400 and leaves the users as they were; one that finds neither goes
\* on to insert exactly one user, with its email and username, and answers
\* 201 with id, username, email, full_name and created_at only.  Stored users
\* are never changed or removed.
C8_RegisterConflictOrOne ==
    [][/\ \A r \in Reqs : (Acts(r) /\ req'[r].op = "register") =>
            LET q == req'[r] IN
            /\ Len(q.log) = 1 =>
                /\ users' = users
                /\ IF \E i \in 1..Len(users) : users[i].email = q.email
                   THEN q.pc = "done" /\ q.status = 400
                   ELSE q.pc = "find_username"
            /\ Len(q.log) = 2 =>
                /\ users' = users
                /\ IF \E i \in 1..Len(users) : users[i].username = q.username
                   THEN q.pc = "done" /\ q.status = 400
                   ELSE q.pc = "insert"
            /\ Len(q.log) = 3 =>
                /\ Len(users') = Len(users) + 1
                /\ users'[Len(users')].email = q.email
                /\ users'[Len(users')].username = q.username
                /\ q.pc = "done" /\ q.status = 201
                /\ DOMAIN q.resp[1] = {"id", "username", "email", "full_name", "created_at"}
                /\ \A f \in DOMAIN q.resp[1] : q.resp[1][f] = users'[Len(users')][f]
       /\ \A i \in 1..Len(users) : Len(users') >= i /\ users'[i] = users[i]
      ]_vars

\* C8 witness: a Register has ended in 400 because its email was taken.
C8_Witness ==
    \E r \in Reqs :
        /\ Done(r, "register") /\ req[r].status = 400
        /\ req[r].resp = Some("Email already registered")
        /\ \E i \in 1..Len(users) : users[i].email = req[r].email

\* C9: a request for any operation but Register and Login whose token is
\* missing, forged or expired ends in 401 on arrival with no store call and
\* no change to either store; a handler that has made a store call holds the
\* email of a signed token.
InvalidToken(token, now) ==
    token = None \/ ~token[1].signed \/ now > token[1].exp
C9_TokenResolvedFirst ==
    /\ [][\A r \in Reqs :
            (Acts(r) /\ Unused(r) /\ req'[r].op \notin {"register", "login"}
                /\ InvalidToken(req'[r].token, clock))
            => /\ req'[r].pc = "done" /\ req'[r].status = 401 /\ req'[r].log = <<>>
               /\ users' = users /\ zakat' = zakat]_vars
    /\ [](\A r \in Reqs : req[r].op \notin {"none", "register", "login"} =>
            /\ req[r].status = 401 => req[r].log = <<>>
            /\ req[r].log # <<>> =>
                /\ req[r].token # None
                /\ req[r].token[1].signed
                /\ req[r].token[1].sub = req[r].email)

\* C9 witness: a Statistics request with a forged token has ended in 401
\* without a store call, with entries in the store.
C9_Witness ==
    \E r \in Reqs :
        /\ Done(r, "stats") /\ req[r].status = 401 /\ req[r].log = <<>>
        /\ req[r].token # None /\ ~req[r].token[1].signed
        /\ zakat # {}

\* C10: the token Login returns carries the email that logged in and the
\* expiry issue time + ttl; it resolves to that email at every instant before
\* the expiry and to Unauthorized at every instant after it, whatever the
\* stores hold when it is presented.
C10_TokenValidUntilExpiry ==
    /\ [](\A r \in Reqs : (Done(r, "login") /\ req[r].status = 200) =>
            LET t == req[r].resp[1]
                expiry == req[r].now + ACCESS_TOKEN_EXPIRE_MINUTES
            IN /\ t.sub = req[r].email /\ t.exp = expiry /\ req[r].now = clock
               /\ \A c \in 0..(MaxClock + ACCESS_TOKEN_EXPIRE_MINUTES + 1) :
                    /\ c < expiry => get_current_user_email(Some(t), c) = {req[r].email}
                    /\ c > expiry => get_current_user_email(Some(t), c) = {Unauthorized})
    /\ [](\A e \in Emails : tokens[e] # None =>
            tokens[e][1].sub = e /\ tokens[e][1].signed)
    /\ [][\A r \in Reqs :
            (Acts(r) /\ Unused(r) /\ req'[r].op = "me"
                /\ req'[r].token \in {tokens[e] : e \in Emails} \ {None})
            => LET t == req'[r].token[1] IN
               /\ clock < t.exp => req'[r].pc = "user" /\ req'[r].email = t.sub
               /\ clock > t.exp => req'[r].pc = "done" /\ req'[r].status = 401]_vars

\* C10 witness: a token Login returned has been presented after its expiry
\* and refused, its user still stored.
C10_Witness ==
    \E r \in Reqs :
        /\ Done(r, "me") /\ req[r].status = 401
        /\ req[r].token # None /\ req[r].token[1].signed
        /\ clock > req[r].token[1].exp
        /\ \E i \in 1..Len(users) : users[i].email = req[r].token[1].sub

\* C11: a Statistics answer holds the sum of amount, the sum of zakat_amount
\* and the number of exactly the caller's stored entries, and a breakdown whose
\* keys are exactly the categories among them, each with its count and its two
\* sums; with no entry of the caller it is all zero with an empty breakdown,
\* and it is always a 200.
RECURSIVE C11_Sum(_, _)
C11_Sum(docs, field) ==
    IF docs = {} THEN 0
    ELSE LET d == CHOOSE x \in docs : TRUE IN d[field] + C11_Sum(docs \ {d}, field)
C11_Mine(r) ==
    {e \in zakat : \E i \in 1..Len(users) :
        users[i].email = req[r].token[1].sub /\ e.user_id = users[i].id}
C11_StatisticsOverOwnEntries ==
    \A r \in Reqs : (Done(r, "stats") /\ Logged(req[r], "zakat", "find")) =>
        LET mine == C11_Mine(r)
            out == req[r].resp[1]
        IN /\ req[r].status = 200
           /\ out.total_amount = C11_Sum(mine, "amount")
           /\ out.total_zakat = C11_Sum(mine, "zakat_amount")
           /\ out.total_entries = Cardinality(mine)
           /\ DOMAIN out.category_breakdown = {e.category : e \in mine}
           /\ \A c \in DOMAIN out.category_breakdown :
                LET inC == {e \in mine : e.category = c} IN
                /\ out.category_breakdown[c].count = Cardinality(inC)
                /\ out.category_breakdown[c].total_amount = C11_Sum(inC, "amount")
                /\ out.category_breakdown[c].total_zakat = C11_Sum(inC, "zakat_amount")
           /\ mine = {} =>
                /\ out.total_amount = 0 /\ out.total_zakat = 0 /\ out.total_entries = 0
                /\ out.category_breakdown = NoCategories

\* C11 witness: Statistics has answered a caller who owns one entry while an
\* entry of another user is stored.
C11_Witness ==
    \E r \in Reqs :
        /\ Done(r, "stats") /\ req[r].status = 200
        /\ req[r].resp[1].total_entries = 1
        /\ \E e \in zakat : e.user_id # req[r].user_id

\* C11 witness: Statistics has answered a caller with two entries of two
\* categories.
C11_WitnessTwoCategories ==
    \E r \in Reqs :
        /\ Done(r, "stats") /\ req[r].status = 200
        /\ DOMAIN req[r].resp[1].category_breakdown = {"Cash", "Gold"}

\* C11 witness: Statistics has answered a caller without entries.
C11_WitnessEmpty ==
    \E r \in Reqs :
        /\ Done(r, "stats") /\ req[r].status = 200
        /\ req[r].resp[1].total_entries = 0 /\ zakat # {}

\* C12: a request whose store call failed ends in 500, handlers ending at the
\* failed call with the stores as they were; in particular not in 400 or 404
\* when the call is the find-one of Get or Update or the delete-one of Delete.
Faulted(q) == q.log # <<>> /\ "raised" \in DOMAIN q.log[Len(q.log)]
C12_StoreFailureIsServerError ==
    \A r \in Reqs : (req[r].pc = "done" /\ Faulted(req[r])) => req[r].status = 500

\* The part of C12 that holds: outside the three try blocks a failed call
\* ends in 500.
C12_FailureOutsideTryIs500 ==
    \A r \in Reqs : (req[r].pc = "done" /\ Faulted(req[r])) =>
        LET call == req[r].log[Len(req[r].log)] IN
        \/ req[r].status = 500
        \/ /\ req[r].status = 400 /\ req[r].resp = Some("Invalid zakat ID")
           /\ call.coll = "zakat" /\ call.op \in {"find_one", "delete_one"}
           /\ call.filter = {"_id", "user_id"}

\* C13: a Login is answered 200 with a token for its email exactly when a
\* stored user has that email and the password verifies against its hash;
\* every other Login, whether the email is stored or not, gets the same 401
\* with the same detail and headers; no Login changes a collection.
C13_Refusal ==
    [detail |-> "Incorrect email or password",
     headers |-> {<<"WWW-Authenticate", "Bearer">>}]
C13_LoginRefusalsIdentical ==
    [][\A r \in Reqs : (Acts(r) /\ req'[r].op = "login" /\ ~Faulted(req'[r])) =>
        LET q == req'[r]
            ok == \E i \in 1..Len(users) :
                    /\ users[i].email = q.email
                    /\ users[i].password = [algo |-> "bcrypt", of |-> q.password]
        IN /\ users' = users /\ zakat' = zakat
           /\ nextUid' = nextUid /\ nextZid' = nextZid
           /\ q.pc = "done"
           /\ q.log = <<[coll |-> "users", op |-> "find_one", filter |-> {"email"}]>>
           /\ IF ok
              THEN /\ q.status = 200
                   /\ q.resp[1].sub = q.email /\ q.resp[1].signed
              ELSE /\ q.status = 401
                   /\ q.resp = Some(C13_Refusal)
                   /\ tokens' = tokens
      ]_vars

\* C13 witness: a Login with a stored email and a wrong password has been
\* refused.
C13_Witness ==
    \E r \in Reqs :
        /\ Done(r, "login") /\ req[r].status = 401
        /\ \E i \in 1..Len(users) : users[i].email = req[r].email
        /\ req[r].password = "pw2"

\* C13 witness: a Login with an email no user has was refused while another
\* user is stored.
C13_WitnessUnknownEmail ==
    \E r \in Reqs :
        /\ Done(r, "login") /\ req[r].status = 401
        /\ ~\E i \in 1..Len(users) : users[i].email = req[r].email
        /\ users # <<>>

\* C14: the answer of List holds each stored entry of the caller once and no
\* other entry, with dates non-increasing from first to last, and the step
\* changes neither collection.
C14_ListIsOwnEntriesByDateDesc ==
    [][\A r \in Reqs : (Acts(r) /\ req[r].op = "list" /\ req[r].pc = "list"
                            /\ ~Faulted(req'[r])) =>
        LET mine == C11_Mine(r)
            out == req'[r].resp[1]
        IN /\ req'[r].pc = "done" /\ req'[r].status = 200
           /\ Len(out) = Cardinality(mine)
           /\ {out[i] : i \in DOMAIN out} =
                {[f \in DOMAIN e \ {"created_at"} |-> e[f]] : e \in mine}
           /\ \A i, j \in DOMAIN out : i < j => out[i].date >= out[j].date
           /\ zakat' = zakat /\ users' = users
           /\ nextZid' = nextZid /\ nextUid' = nextUid
      ]_vars

\* C14 witness: List has answered with two entries of different dates.
C14_Witness ==
    \E r \in Reqs :
        /\ Done(r, "list") /\ req[r].status = 200
        /\ Len(req[r].resp[1]) = 2
        /\ req[r].resp[1][1].date > req[r].resp[1][2].date

\* C14 witness: List has answered with the caller's one entry while another
\* user's entry is stored.
C14_WitnessOtherUser ==
    \E r \in Reqs :
        /\ Done(r, "list") /\ req[r].status = 200
        /\ Len(req[r].resp[1]) = 1
        /\ \E e \in zakat : e.user_id # req[r].user_id

\* C15: every Update that ends does so with 200 and the entry, 400 on a
\* malformed id or 404 when the caller has no such entry (401 without a valid
\* token), also when a Delete of the same entry takes effect between its store
\* calls; it never ends in a server fault.
C15_UpdateEndsInListedOutcome ==
    \A r \in Reqs : Done(r, "update") =>
        \/ req[r].status = 401
        \/ req[r].status = 400 /\ req[r].resp = Some("Invalid zakat ID")
        \/ req[r].status = 404
        \/ /\ req[r].status = 200
           /\ \E e \in zakat : e.id = req[r].zakat_id /\ req[r].resp[1].id = e.id

\* C16: no step changes the id or the user id of a stored entry or stores a
\* second entry under a stored id; a step of a request leaves every entry
\* that does not belong to the user of the request's token exactly as it was,
\* whatever other requests are in flight; and the entry an Update's update-one
\* matches by id alone belongs to the caller.
C16_Caller(q) ==
    IF q.token = None THEN {}
    ELSE {users[i].id : i \in {j \in 1..Len(users) : users[j].email = q.token[1].sub}}
C16_OthersEntriesUntouched ==
    [][/\ zakat' # zakat =>
            /\ \A e \in zakat : \A n \in zakat' : n.id = e.id => n.user_id = e.user_id
            /\ \A n, m \in zakat' : n.id = m.id => n = m
            /\ \A r \in Reqs : Acts(r) =>
                 {e \in zakat : e.user_id \notin C16_Caller(req'[r])}
                   = {e \in zakat' : e.user_id \notin C16_Caller(req'[r])}
       /\ \A r \in Reqs : (req[r].op = "update" /\ req[r].pc = "write" /\ Acts(r)) =>
            \A e \in zakat : e.id = req[r].zakat_id =>
                e.user_id \in C16_Caller(req[r])
      ]_vars

\* C16 witness: an Update that changed its caller's entry has ended while an
\* entry of another user is stored.
C16_Witness ==
    \E r \in Reqs :
        /\ Done(r, "update") /\ req[r].status = 200
        /\ req[r].body.amount # None
        /\ Logged(req[r], "zakat", "update_one")
        /\ \E e \in zakat : e.user_id # req[r].user_id

\* C17: stored users are never changed or removed; every token Login has
\* returned names the email of a stored user; and no handler that was entered
\* with a token ends in 404 'User not found' or waits for a user lookup that
\* will find nothing.
C17_UserNotFound(q) ==
    q.pc = "done" /\ q.status = 404 /\ q.resp = Some("User not found")
C17_UsersOnlyGrow ==
    /\ [][\A i \in 1..Len(users) : Len(users') >= i /\ users'[i] = users[i]]_vars
    /\ [](\A e \in Emails : tokens[e] # None =>
            \E i \in 1..Len(users) : users[i].email = tokens[e][1].sub)
    /\ [](\A r \in Reqs : req[r].op \in AuthedOps =>
            /\ ~C17_UserNotFound(req[r])
            /\ req[r].pc = "user" =>
                \E i \in 1..Len(users) : users[i].email = req[r].email)

\* C17 witness: a handler has found the user of a token that Login returned
\* before the latest registration.
C17_Witness ==
    \E r \in Reqs :
        /\ Done(r, "me") /\ req[r].status = 200
        /\ Len(users) = 2
        /\ req[r].resp[1].id = 1
        /\ req[r].token[1].exp <= users[2].created_at + ACCESS_TOKEN_EXPIRE_MINUTES

\* The same on the entry side: no request there ends in 'User not found'.
C17_EntrySideNeverUserNotFound ==
    \A r \in Reqs : ~C17_UserNotFound(req[r])

====
